---- MODULE Spec2Model ----
(***************************************************************************)
(* RatAR: the marker-based augmented-reality demo.                         *)
(*                                                                         *)
(* The model follows the animated-model variant of the program:            *)
(* ARObjectRenderer (src/include/ARObjectRenderer.h) and the               *)
(* AugmentedRealityApp that owns it (src/src/main.cc, second half).  The   *)
(* frame loop of the cube variant (src/src/main.cc, first half) is SpecV1, *)
(* and the projection and view matrices are studied in SpecTransform.      *)
(* SpecLive is the frame loop while it keeps drawing the object, with the  *)
(* fairness of its one thread; SpecBackground is the upload of the camera  *)
(* frame to the background texture; SpecGesture is GestureDetector and     *)
(* SpecMesh the procedural meshes of ModelLoader                           *)
(* (src/include/GestureDetector.h).                                        *)
(*                                                                         *)
(* Units.  Time (glfwGetTime) is counted in milliseconds, lengths in       *)
(* micrometres, so that the floating-point constants of the source become  *)
(* integers: animationDuration 1.0 s = 1000 ms, animationHeight 0.05 m =   *)
(* 50000 um, a pose of 0.5 m = 500000 um.  Arithmetic on them is exact;    *)
(* the rounding of float is not modelled.                                  *)
(*                                                                         *)
(* Handles.  A GL object name or a window pointer is 0 (none / nullptr) or *)
(* a positive number.  What the libraries hold is kept apart from the      *)
(* fields of the renderer: "acquired" and "released" list, in order, the   *)
(* resources the code obtained and the release calls it issued on a        *)
(* non-null handle.                                                        *)
(***************************************************************************)
EXTENDS Integers, Sequences, FiniteSets, TLC

VARIABLES
    pc,                       \* position of the single thread
    isCalibrated,             \* AugmentedRealityApp::isCalibrated
    views,                    \* performCalibration: imagePoints.size()
    calibFile,                \* the calibration file on disk
    cameraMatrix,             \* AugmentedRealityApp::cameraMatrix
    distCoeffs,               \* AugmentedRealityApp::distCoeffs is non-empty
    nMarkers,                 \* detectAndRender: markerIds.size() of the frame
    gesture,                  \* detectAndRender: what detectHandGesture returned
    markerFound,              \* detectAndRender: markerFound
    tvecZ,                    \* detectAndRender: tvec[2], the pose given to render
    markerZ,                  \* tvec[2] of each detected marker, in detection order
    markerIndex,              \* detectAndProcess: the loop variable i
    steps,                    \* the steps of the current loop iteration, in order
    frameEmpty,               \* the frame acquired in this iteration was empty
    window,                   \* ARObjectRenderer::window
    objectShaderProgram,
    backgroundShaderProgram,
    backgroundVAO,
    backgroundVBO,
    backgroundTexture,
    modelVAO,                 \* loadedModel.vao
    modelVBO,                 \* loadedModel.vbo
    animationActive,
    animationStartTime,
    now,                      \* glfwGetTime()
    shouldClose,              \* the window's close flag
    glfwUp,                   \* GLFW is initialised
    ctx,                      \* a GL context is current
    gladLoaded,               \* the GL function pointers are loaded
    acquired,                 \* resources obtained, in order
    released,                 \* release calls on non-null handles, in order
    call,                     \* the renderer method the last step called
    queried,                  \* the last step called getAnimationTransform
    offset,                   \* the Y translation that call returned
    glLog,                    \* the draw steps of the current frame, in order
    everStarted,              \* some trigger has started an animation
    initResult,               \* "none", "ok" or "failed": what init returned
    shaderFailed,             \* init saw a shader compile or link failure
    modelLoad,                \* "none", "ok" or "failed": what loadModel returned
    loopEntered,              \* the loop condition of run() was evaluated
    everRendered,             \* render() was called
    cleanupCalls,             \* number of cleanup() calls
    glNoCtx,                  \* a GL call was issued without a usable context
    xfIn,                     \* the arguments given to the matrix builders
    projection,               \* the matrix buildProjectionMatrix returned
    view,                     \* the view matrix built last
    calibKey,                 \* performCalibration: key, as last read
    calibFound,               \* performCalibration: found, as last computed
    frame,                    \* the camera frame given to drawBackground
    texture,                  \* the image behind backgroundTexture
    isInitialized,            \* GestureDetector::isInitialized
    handPositions,            \* GestureDetector::handPositions
    timestamps,               \* GestureDetector::timestamps
    gestures,                 \* what detectGestures returned
    tracked,                  \* the histories when detectMovementGestures began
    gdIn,                     \* the frame given to detectGestures
    clock,                    \* std::chrono::steady_clock::now()
    meshIn,                   \* the arguments given to ModelLoader
    vertices,                 \* the vertex vector given to ModelLoader
    indices                   \* the index vector given to ModelLoader

appVars    == <<isCalibrated, views, calibKey, calibFound, calibFile,
                cameraMatrix, distCoeffs>>
poseVars   == <<nMarkers, gesture, markerFound, tvecZ, markerZ, markerIndex>>
frameVars  == <<poseVars, steps, frameEmpty>>
handleVars == <<window, objectShaderProgram, backgroundShaderProgram,
                backgroundVAO, backgroundVBO, backgroundTexture,
                modelVAO, modelVBO>>
animVars   == <<animationActive, animationStartTime, everStarted>>
libVars    == <<glfwUp, ctx, gladLoaded, acquired, released>>
obsVars    == <<call, queried, offset>>
histVars   == <<initResult, shaderFailed, modelLoad, loopEntered,
                everRendered, cleanupCalls, glNoCtx>>
xfVars     == <<xfIn, projection, view>>
bgVars     == <<frame, texture>>
gdVars     == <<isInitialized, handPositions, timestamps, gestures, tracked,
                gdIn, clock>>
meshVars   == <<meshIn, vertices, indices>>
\* The parts studied on their own; the application steps leave them alone.
sideVars   == <<xfVars, bgVars, gdVars, meshVars>>
vars == <<pc, appVars, frameVars, handleVars, animVars, now, shouldClose,
          libVars, obsVars, glLog, histVars, sideVars>>

----------------------------------------------------------------------------
(* Program constants and the bounds of the model.                          *)

animationDuration == 1000
animationHeight == 50000
requiredImages == 20

MaxTime == 2500
MaxMarkers == 2
MaxCleanups == 2
MaxDepth == 4

\* Amounts by which the clock advances between two steps (ms).
TimeSteps == {250, 500}
\* Values of tvec[2] the pose solver may return (um): behind the camera,
\* on the image plane, 0.5 m in front.
ZValues == {-500000, 0, 500000}
Keys == {"q", "c", "other"}

\* A 3x3 camera matrix, by the four entries the program reads: fx = (0,0),
\* fy = (1,1), cx = (0,2), cy = (1,2), in pixels.  EmptyMat is cv::Mat().
EmptyMat == [empty |-> TRUE, fx |-> 0, fy |-> 0, cx |-> 0, cy |-> 0]
\* A 640x480 pinhole camera, and the same camera with a negative focal
\* length in x (a mirrored image), which the file format does not exclude.
PinholeCamera ==
    [empty |-> FALSE, fx |-> 500, fy |-> 500, cx |-> 320, cy |-> 240]
MirroredCamera ==
    [empty |-> FALSE, fx |-> -500, fy |-> 500, cx |-> 320, cy |-> 240]

\* The calibration file: whether cv::FileStorage opens it for reading, and
\* what its cameraMatrix and distCoeffs nodes hold.
NoFile == [opened |-> FALSE, cameraMatrix |-> EmptyMat, distCoeffs |-> FALSE]
CalibFiles ==
    {NoFile}
    \cup [opened : {TRUE},
          cameraMatrix : {EmptyMat, PinholeCamera, MirroredCamera},
          distCoeffs : BOOLEAN]

----------------------------------------------------------------------------
(* The steps that call no renderer method report no call.                  *)

NoCall == call' = "none" /\ queried' = FALSE /\ offset' = 0
Called(m) == call' = m /\ queried' = FALSE /\ offset' = 0

----------------------------------------------------------------------------
(* The resources of the renderer, in the order init and loadModel obtain   *)
(* them, and the name the driver gives each.                               *)

Resources == <<"glfw", "window", "objectShaderProgram",
               "backgroundShaderProgram", "backgroundVAO", "backgroundVBO",
               "backgroundTexture", "modelVAO", "modelVBO">>

GLName(res) == CHOOSE i \in 1..Len(Resources) : Resources[i] = res

Count(seq, x) == Cardinality({i \in 1..Len(seq) : seq[i] = x})

\* The inputs of init: which of its steps succeed.
InitInputs == [glfw : BOOLEAN, win : BOOLEAN, glad : BOOLEAN,
               objVs : BOOLEAN, objFs : BOOLEAN, objLink : BOOLEAN,
               bgVs : BOOLEAN, bgFs : BOOLEAN, bgLink : BOOLEAN]

\* createShaderProgram: 0 when a shader does not compile or the program
\* does not link, else the name of the program.
createShaderProgram(vsOk, fsOk, linkOk, res) ==
    IF ~vsOk \/ ~fsOk THEN 0
    ELSE IF ~linkOk THEN 0
    ELSE GLName(res)

\* init, line 132: the test that makes init give up after the two
\* createShaderProgram calls.
ShaderCheckFails_objectOnly(obj, bg) == obj = 0

ShaderCheckFails(obj, bg) == obj = 0 \/ bg = 0

\* The acquisitions of a list of <<resource, handle>> pairs: the resources
\* whose handle is not 0.
RECURSIVE NonNull(_)
NonNull(pairs) ==
    IF pairs = <<>> THEN <<>>
    ELSE (IF Head(pairs)[2] # 0 THEN <<Head(pairs)[1]>> ELSE <<>>)
         \o NonNull(Tail(pairs))

\* bool init(width, height, title); ret is what it returns.
init(in, ret) ==
    /\ initResult' = IF ret THEN "ok" ELSE "failed"
    /\ UNCHANGED <<modelVAO, modelVBO>>
    /\ IF ~in.glfw THEN
          \* glfwInit failed
          /\ ret = FALSE
          /\ UNCHANGED <<window, objectShaderProgram, backgroundShaderProgram,
                         backgroundVAO, backgroundVBO, backgroundTexture,
                         libVars, shaderFailed>>
       ELSE IF ~in.win THEN
          \* glfwCreateWindow returned nullptr: glfwTerminate, return false
          /\ ret = FALSE
          /\ window' = 0
          /\ glfwUp' = FALSE
          /\ acquired' = acquired \o <<"glfw">>
          /\ released' = released \o <<"glfw">>
          /\ UNCHANGED <<objectShaderProgram, backgroundShaderProgram,
                         backgroundVAO, backgroundVBO, backgroundTexture,
                         ctx, gladLoaded, shaderFailed>>
       ELSE IF ~in.glad THEN
          \* gladLoadGLLoader failed: the window and its context stay
          /\ ret = FALSE
          /\ window' = GLName("window")
          /\ glfwUp' = TRUE
          /\ ctx' = TRUE
          /\ acquired' = acquired \o <<"glfw", "window">>
          /\ UNCHANGED <<objectShaderProgram, backgroundShaderProgram,
                         backgroundVAO, backgroundVBO, backgroundTexture,
                         gladLoaded, released, shaderFailed>>
       ELSE
          LET obj == createShaderProgram(in.objVs, in.objFs, in.objLink,
                                         "objectShaderProgram")
              bg  == createShaderProgram(in.bgVs, in.bgFs, in.bgLink,
                                         "backgroundShaderProgram")
              programs == NonNull(<< <<"objectShaderProgram", obj>>,
                                     <<"backgroundShaderProgram", bg>> >>)
          IN  /\ window' = GLName("window")
              /\ glfwUp' = TRUE
              /\ ctx' = TRUE
              /\ gladLoaded' = TRUE
              /\ objectShaderProgram' = obj
              /\ backgroundShaderProgram' = bg
              /\ shaderFailed' = ~(in.objVs /\ in.objFs /\ in.objLink
                                   /\ in.bgVs /\ in.bgFs /\ in.bgLink)
              /\ UNCHANGED released
              /\ IF ShaderCheckFails(obj, bg) THEN
                    /\ ret = FALSE
                    /\ acquired' = acquired \o <<"glfw", "window">> \o programs
                    /\ UNCHANGED <<backgroundVAO, backgroundVBO,
                                   backgroundTexture>>
                 ELSE
                    \* setupBackground, glGenTextures
                    /\ ret = TRUE
                    /\ backgroundVAO' = GLName("backgroundVAO")
                    /\ backgroundVBO' = GLName("backgroundVBO")
                    /\ backgroundTexture' = GLName("backgroundTexture")
                    /\ acquired' = acquired \o <<"glfw", "window">> \o programs
                                   \o <<"backgroundVAO", "backgroundVBO",
                                        "backgroundTexture">>

\* bool loadModel(objPath, mtlBasePath); ret is what it returns: false when
\* tinyobj::LoadObj fails, and then nothing was created.
loadModel(ret) ==
    /\ modelLoad' = IF ret THEN "ok" ELSE "failed"
    /\ UNCHANGED <<window, objectShaderProgram, backgroundShaderProgram,
                   backgroundVAO, backgroundVBO, backgroundTexture,
                   glfwUp, ctx, gladLoaded, released>>
    /\ IF ret THEN
          /\ modelVAO' = GLName("modelVAO")
          /\ modelVBO' = GLName("modelVBO")
          /\ acquired' = acquired \o <<"modelVAO", "modelVBO">>
       ELSE
          UNCHANGED <<modelVAO, modelVBO, acquired>>

----------------------------------------------------------------------------
(* The animation.                                                          *)

\* void triggerAnimation()
triggerAnimation_restart ==
    /\ animationActive' = TRUE
    /\ animationStartTime' = now
    /\ everStarted' = TRUE

triggerAnimation ==
    IF ~animationActive THEN
        /\ animationActive' = TRUE
        /\ animationStartTime' = now
        /\ everStarted' = TRUE
    ELSE
        UNCHANGED <<animationActive, animationStartTime, everStarted>>

\* getAnimationTransform, line 292: the animation is still running.
StillRunning_inclusive(elapsedTime) == elapsedTime <= animationDuration

StillRunning(elapsedTime) == elapsedTime < animationDuration

\* getAnimationTransform, lines 295-297: the duration has passed.
Expire_keepActive ==
    /\ UNCHANGED animationActive
    /\ offset' = 0

Expire ==
    /\ animationActive' = FALSE
    /\ offset' = 0

\* glm::mat4 getAnimationTransform(): offset' is the Y translation of the
\* matrix it returns, 0 for the identity.
getAnimationTransform ==
    /\ queried' = TRUE
    /\ UNCHANGED <<animationStartTime, everStarted>>
    /\ IF animationActive THEN
          LET elapsedTime == now - animationStartTime IN
          IF StillRunning(elapsedTime) THEN
              /\ offset' = (animationHeight * elapsedTime) \div animationDuration
              /\ UNCHANGED animationActive
          ELSE
              Expire
       ELSE
          /\ offset' = 0
          /\ UNCHANGED animationActive

----------------------------------------------------------------------------
(* One frame.                                                              *)

\* render, line 219: the object is drawn.
DrawCondition_anyZ(vao, tz) == vao # 0

DrawCondition(vao, tz) == vao # 0 /\ tz > 0

\* render: the GL steps, in the order of the statements of render and of
\* drawBackground.
RenderOps_depthFirst(draw) ==
    <<"clearColorDepth", "clearDepth", "texImage2D", "drawBackgroundQuad">>
    \o (IF draw THEN <<"drawObject">> ELSE <<>>)

RenderOps(draw) ==
    <<"clearColorDepth", "texImage2D", "drawBackgroundQuad", "clearDepth">>
    \o (IF draw THEN <<"drawObject">> ELSE <<>>)

\* render, line 219, when the condition is false: the block that queries
\* the animation is skipped.
SkipObject_stopAnimation ==
    /\ queried' = FALSE
    /\ offset' = 0
    /\ animationActive' = FALSE
    /\ UNCHANGED <<animationStartTime, everStarted>>

SkipObject ==
    /\ queried' = FALSE
    /\ offset' = 0
    /\ UNCHANGED animVars

\* void render(frame, rvec, tvec, cameraMatrix); tz is tvec[2].
render(tz) ==
    LET draw == DrawCondition(modelVAO, tz) IN
    /\ call' = "render"
    /\ everRendered' = TRUE
    /\ glLog' = glLog \o RenderOps(draw)
    /\ IF draw THEN getAnimationTransform
       ELSE SkipObject

\* void pollEventsAndSwapBuffers(); close: the user closed the window and
\* glfwPollEvents saw it.
pollEventsAndSwapBuffers(close) ==
    /\ glLog' = glLog \o <<"swapBuffers", "pollEvents">>
    /\ shouldClose' = (shouldClose \/ close)

----------------------------------------------------------------------------
(* Shutdown.                                                               *)

\* The GL objects cleanup deletes, in the order of its statements, each
\* with the handle it passes.
CleanupDeletes ==
    << <<"modelVAO", modelVAO>>, <<"modelVBO", modelVBO>>,
       <<"objectShaderProgram", objectShaderProgram>>,
       <<"backgroundVAO", backgroundVAO>>, <<"backgroundVBO", backgroundVBO>>,
       <<"backgroundShaderProgram", backgroundShaderProgram>>,
       <<"backgroundTexture", backgroundTexture>> >>

\* void cleanup().  Its seven glDelete* calls need a current context and
\* loaded function pointers; without them the behaviour is undefined, and
\* the process either dies in the first of them (crash) or goes on.  No
\* field is reset: the handles and the window pointer keep their values.
cleanup(crash) ==
    /\ cleanupCalls' = cleanupCalls + 1
    /\ glNoCtx' = (glNoCtx \/ ~(ctx /\ gladLoaded))
    /\ crash => ~(ctx /\ gladLoaded)
    /\ UNCHANGED <<handleVars, gladLoaded, acquired>>
    /\ IF crash THEN
          UNCHANGED <<glfwUp, ctx, released>>
       ELSE
          /\ released' = released \o NonNull(CleanupDeletes)
                         \o (IF window # 0 THEN <<"window">> ELSE <<>>)
                         \o (IF glfwUp THEN <<"glfw">> ELSE <<>>)
          /\ ctx' = FALSE
          /\ glfwUp' = FALSE

----------------------------------------------------------------------------
(* The matrices of render().  A matrix is written M[r][c], row r and       *)
(* column c counted from 1: glm's m[c][r], column first and counted from   *)
(* 0, is M[r+1][c+1].  The entries of the projection are fractions         *)
(* <<numerator, denominator>>; those of a view matrix are integers, the    *)
(* rotations being by quarter turns about a coordinate axis.  Lengths are  *)
(* in millimetres here, and near and far in tenths of a metre.             *)

Frac(n, d) == <<n, d>>
FracEq(a, b) == a[1] * b[2] = b[1] * a[2]
FracAdd(a, b) == <<a[1] * b[2] + b[1] * a[2], a[2] * b[2]>>
FracMul(a, b) == <<a[1] * b[1], a[2] * b[2]>>
FracDiv(a, b) == <<a[1] * b[2], a[2] * b[1]>>

\* buildProjectionMatrix, line 393: -(far + near) / (far - near)
DepthScale_positive(near, far) == Frac(far + near, far - near)

DepthScale(near, far) == Frac(-(far + near), far - near)

\* glm::mat4 buildProjectionMatrix(cameraMatrix, screen_width,
\* screen_height, near, far).  Nothing is checked: the entries are computed
\* from whatever is passed.
buildProjectionMatrix(cm, screen_width, screen_height, near, far) ==
    LET fx == cm.fx
        fy == cm.fy
        cx == cm.cx
        cy == cm.cy
    IN  [r \in 1..4 |-> [c \in 1..4 |->
            IF r = 1 /\ c = 1 THEN Frac(2 * fx, screen_width)
            ELSE IF r = 2 /\ c = 2 THEN Frac(2 * fy, screen_height)
            ELSE IF r = 1 /\ c = 3 THEN Frac(screen_width - 2 * cx,
                                             screen_width)
            ELSE IF r = 2 /\ c = 3 THEN Frac(2 * cy - screen_height,
                                             screen_height)
            ELSE IF r = 3 /\ c = 3 THEN DepthScale(near, far)
            ELSE IF r = 4 /\ c = 3 THEN Frac(-1, 1)
            ELSE IF r = 3 /\ c = 4 THEN Frac(-2 * far * near, far - near)
            ELSE Frac(0, 1)]]

\* A rotation vector is an axis (1 = x, 2 = y, 3 = z) and a number of
\* quarter turns about it; no turn is the zero vector.
Sin4(k) == CASE k % 4 = 1 -> 1 [] k % 4 = 3 -> -1 [] OTHER -> 0
Cos4(k) == CASE k % 4 = 0 -> 1 [] k % 4 = 2 -> -1 [] OTHER -> 0

Axis(a) == [i \in 1..3 |-> IF i = a THEN 1 ELSE 0]

Skew(u) == << <<0, -u[3], u[2]>>, <<u[3], 0, -u[1]>>, <<-u[2], u[1], 0>> >>

\* cv::Rodrigues: cos(theta) I + (1 - cos(theta)) u u^T + sin(theta) [u]x
Rodrigues(rvec) ==
    LET u == Axis(rvec.axis)
        co == Cos4(rvec.turns)
        si == Sin4(rvec.turns)
    IN  [i \in 1..3 |-> [j \in 1..3 |->
            co * (IF i = j THEN 1 ELSE 0) + (1 - co) * u[i] * u[j]
            + si * Skew(u)[i][j]]]

MatMul(A, B) ==
    [r \in 1..4 |-> [c \in 1..4 |->
        A[r][1] * B[1][c] + A[r][2] * B[2][c] + A[r][3] * B[3][c]
        + A[r][4] * B[4][c]]]

\* buildViewMatrix, lines 402-410: the identity, then
\* view_matrix[j][i] = rot_mat(i, j) and view_matrix[3][0..2] = tvec.
PoseMatrix_transposed(rot_mat, tvec) ==
    [r \in 1..4 |-> [c \in 1..4 |->
        IF r <= 3 /\ c <= 3 THEN rot_mat[c][r]
        ELSE IF r <= 3 /\ c = 4 THEN tvec[r]
        ELSE IF r = c THEN 1 ELSE 0]]

PoseMatrix(rot_mat, tvec) ==
    [r \in 1..4 |-> [c \in 1..4 |->
        IF r <= 3 /\ c <= 3 THEN rot_mat[r][c]
        ELSE IF r <= 3 /\ c = 4 THEN tvec[r]
        ELSE IF r = c THEN 1 ELSE 0]]

\* buildViewMatrix, lines 412-417: the change of basis from the camera
\* frame of OpenCV to that of OpenGL.
cv_to_gl_flipZOnly ==
    << <<1, 0, 0, 0>>, <<0, 1, 0, 0>>, <<0, 0, -1, 0>>, <<0, 0, 0, 1>> >>

cv_to_gl ==
    << <<1, 0, 0, 0>>, <<0, -1, 0, 0>>, <<0, 0, -1, 0>>, <<0, 0, 0, 1>> >>

\* glm::mat4 buildViewMatrix(rvec, tvec): cv_to_gl * view_matrix
buildViewMatrix(rvec, tvec) ==
    MatMul(cv_to_gl, PoseMatrix(Rodrigues(rvec), tvec))

\* ARCubeRenderer::buildViewMatrix of the cube-only renderer
\* (src/unnamed/part_000, lines 405-416): view_matrix is declared without an
\* initialiser, the rotation, the translation and element [3][3] are
\* assigned, elements [0][3], [1][3] and [2][3] never are.  g holds what
\* they contain: 0 when the constructor of glm::mat4 initialises, anything
\* otherwise.
Uninitialised == {0, 7}

cubeViewMatrix(rvec, tvec, g) ==
    LET rot_mat == Rodrigues(rvec)
        view_matrix == [r \in 1..4 |-> [c \in 1..4 |->
                           IF r <= 3 /\ c <= 3 THEN rot_mat[r][c]
                           ELSE IF r <= 3 /\ c = 4 THEN tvec[r]
                           ELSE IF c = 4 THEN 1
                           ELSE g[c]]]
    IN  MatMul(cv_to_gl, view_matrix)

\* glm::inverse, by cofactors.  The quotient is exact when the determinant
\* is 1 or -1, as it is for the matrices inverted here.
Skip(i, k) == IF i < k THEN i ELSE i + 1

Minor(A, r, c) == [i \in 1..3 |-> [j \in 1..3 |-> A[Skip(i, r)][Skip(j, c)]]]

Det3(B) ==
    B[1][1] * (B[2][2] * B[3][3] - B[2][3] * B[3][2])
    - B[1][2] * (B[2][1] * B[3][3] - B[2][3] * B[3][1])
    + B[1][3] * (B[2][1] * B[3][2] - B[2][2] * B[3][1])

Cofactor(A, r, c) ==
    (IF (r + c) % 2 = 0 THEN 1 ELSE -1) * Det3(Minor(A, r, c))

Det4(A) ==
    A[1][1] * Cofactor(A, 1, 1) + A[1][2] * Cofactor(A, 1, 2)
    + A[1][3] * Cofactor(A, 1, 3) + A[1][4] * Cofactor(A, 1, 4)

inverse(A) ==
    LET det == Det4(A)
    IN  [r \in 1..4 |-> [c \in 1..4 |-> Cofactor(A, c, r) \div det]]

\* ARRenderer::drawCube, lines 834-842: the identity, then
\* view[i][j] = rotMat(i, j) and view[i][3] = tvec[i], then glm::inverse.
drawCubeView(rvec, tvec) ==
    LET rotMat == Rodrigues(rvec)
        pose == [r \in 1..4 |-> [c \in 1..4 |->
                    IF r <= 3 /\ c <= 3 THEN rotMat[c][r]
                    ELSE IF r = 4 /\ c <= 3 THEN tvec[c]
                    ELSE IF r = c THEN 1 ELSE 0]]
    IN  inverse(pose)

\* render, lines 224-230: where the model matrix (the animation transform,
\* then the quarter turn about X, then the scale) puts the origin of the
\* model when the animation transform translates by yOffset.
ModelOrigin(yOffset) == <<0, yOffset, 0>>

\* The arguments the builders are studied with.
OffCentreCamera ==
    [empty |-> FALSE, fx |-> 600, fy |-> 500, cx |-> 300, cy |-> 250]
DepthRanges ==
    {<<1, 1000>>}
    \cup {nf \in (1..MaxDepth) \X (1..MaxDepth) : nf[1] < nf[2]}
RenderArguments ==
    [camera |-> PinholeCamera, width |-> 640, height |-> 480,
     depth |-> <<1, 1000>>, rvec |-> [axis |-> 1, turns |-> 0],
     tvec |-> <<0, 0, 0>>]
\* Either the camera and the depth range vary, or the pose does.
TransformInputs ==
    {[RenderArguments EXCEPT !.camera = cm, !.depth = nf] :
        cm \in {PinholeCamera, MirroredCamera, OffCentreCamera},
        nf \in DepthRanges}
    \cup {[RenderArguments EXCEPT !.rvec = rv, !.tvec = tv] :
            rv \in [axis : 1..3, turns : 0..3],
            tv \in {0, 100} \X {0, 200} \X {-500, 0, 500}}

----------------------------------------------------------------------------
(* The application: main, AugmentedRealityApp and its run().               *)

\* No frame was captured yet, no image was given to the texture, no mesh
\* was asked for.
NoFrame == [cols |-> 0, rows |-> 0, id |-> 0, bottomUp |-> FALSE]
NoImage == [cols |-> 0, rows |-> 0, id |-> 0, bottomUp |-> FALSE,
            stride |-> 0]
NoMesh == [size |-> 0, segments |-> 0]
NoHistory == [positions |-> <<>>, times |-> <<>>]
NoInput == [empty |-> TRUE, hands |-> <<>>]

\* The state after construction: AugmentedRealityApp and ARObjectRenderer
\* member initialisers.
ConstructedButMesh ==
    /\ isCalibrated = FALSE
    /\ views = 0
    /\ cameraMatrix = EmptyMat
    /\ distCoeffs = FALSE
    /\ markerZ = <<>>
    /\ markerIndex = 0
    /\ steps = <<>>
    /\ frameEmpty = FALSE
    /\ nMarkers = 0
    /\ gesture = FALSE
    /\ markerFound = FALSE
    /\ tvecZ = 0
    /\ window = 0
    /\ objectShaderProgram = 0
    /\ backgroundShaderProgram = 0
    /\ backgroundVAO = 0
    /\ backgroundVBO = 0
    /\ backgroundTexture = 0
    /\ modelVAO = 0
    /\ modelVBO = 0
    /\ animationActive = FALSE
    /\ animationStartTime = 0
    /\ now = 0
    /\ shouldClose = FALSE
    /\ glfwUp = FALSE
    /\ ctx = FALSE
    /\ gladLoaded = FALSE
    /\ acquired = <<>>
    /\ released = <<>>
    /\ call = "none"
    /\ queried = FALSE
    /\ offset = 0
    /\ glLog = <<>>
    /\ everStarted = FALSE
    /\ initResult = "none"
    /\ shaderFailed = FALSE
    /\ modelLoad = "none"
    /\ loopEntered = FALSE
    /\ everRendered = FALSE
    /\ cleanupCalls = 0
    /\ glNoCtx = FALSE
    /\ projection = <<>>
    /\ view = <<>>
    /\ calibKey = "none"
    /\ calibFound = FALSE
    /\ frame = NoFrame
    /\ texture = NoImage
    /\ gestures = <<>>
    /\ tracked = NoHistory
    /\ gdIn = NoInput
    /\ clock = 0

\* The same, and no mesh asked for.
ConstructedButDetector ==
    /\ meshIn = NoMesh
    /\ vertices = <<>>
    /\ indices = <<>>
    /\ ConstructedButMesh

\* GestureDetector(), lines 51-55, and the same.
Constructed ==
    /\ isInitialized = FALSE
    /\ handPositions = <<>>
    /\ timestamps = <<>>
    /\ ConstructedButDetector

Init ==
    /\ pc = "main"
    /\ calibFile \in CalibFiles
    /\ xfIn = RenderArguments
    /\ Constructed

\* bool loadCalibration(), its return value: the file opens and both
\* entries are read non-empty.
loadCalibration_opened(opened, cameraMatrixRead, distCoeffsRead) == opened

loadCalibration(opened, cameraMatrixRead, distCoeffsRead) ==
    IF ~opened THEN FALSE
    ELSE cameraMatrixRead /\ distCoeffsRead

\* run(), lines 515-519: where run() goes once performCalibration() is
\* back.
AfterCalibration_goOn(cal) == "init"

AfterCalibration(cal) == IF ~cal THEN "dtor" ELSE "init"

\* main, AugmentedRealityApp(): open the camera (exit(-1) when it does not
\* open: no destructor runs), load the calibration.
AppCtor ==
    /\ pc = "main"
    /\ \E camOpened \in BOOLEAN :
          IF ~camOpened THEN
              /\ pc' = "exited"
              /\ UNCHANGED <<isCalibrated, cameraMatrix, distCoeffs>>
          ELSE
              /\ cameraMatrix' = IF calibFile.opened
                                    THEN calibFile.cameraMatrix
                                    ELSE cameraMatrix
              /\ distCoeffs' = IF calibFile.opened
                                  THEN calibFile.distCoeffs
                                  ELSE distCoeffs
              /\ isCalibrated' = loadCalibration(calibFile.opened,
                                                 ~cameraMatrix'.empty,
                                                 distCoeffs')
              /\ pc' = "run"
    /\ NoCall
    /\ UNCHANGED <<sideVars, views, calibKey, calibFound, calibFile, frameVars,
                   handleVars,
                   animVars,
                   now, shouldClose,
                   libVars, glLog, histVars>>

\* run(), lines 514-520: calibrate first when no calibration was loaded.
RunStart ==
    /\ pc = "run"
    /\ pc' = IF ~isCalibrated THEN "calib" ELSE "init"
    /\ NoCall
    /\ UNCHANGED <<sideVars, appVars, frameVars, handleVars, animVars, now,
                   shouldClose,
                   libVars, glLog, histVars>>

\* performCalibration(), line 464: the condition under which the view of
\* this iteration is kept.
CaptureView_anyKey(k, f) == f

CaptureView(k, f) == k = "c" /\ f

\* performCalibration(): one iteration of its capture loop.  An empty frame
\* is skipped before the chessboard is looked for and before a key is read.
\* 'q' returns, and run() then returns too, isCalibrated being false.
CalibIter ==
    /\ pc = "calib"
    /\ views < requiredImages
    /\ \E empty \in BOOLEAN, f \in BOOLEAN, k \in Keys :
          IF empty THEN
              /\ calibKey' = "none"
              /\ calibFound' = FALSE
              /\ UNCHANGED <<pc, views>>
          ELSE
              /\ calibKey' = k
              /\ calibFound' = f
              /\ IF k = "q" THEN
                     /\ pc' = AfterCalibration(isCalibrated)
                     /\ UNCHANGED views
                 ELSE IF CaptureView(k, f) THEN
                     /\ views' = views + 1
                     /\ UNCHANGED pc
                 ELSE
                     UNCHANGED <<pc, views>>
    /\ NoCall
    /\ UNCHANGED <<sideVars, isCalibrated, calibFile, cameraMatrix, distCoeffs,
                   frameVars, handleVars, animVars, now, shouldClose,
                   libVars, glLog, histVars>>

\* performCalibration(): after the loop, calibrateCamera (taken to return
\* the intrinsics of the pinhole camera), isCalibrated, saveCalibration,
\* which leaves the file as it was when it cannot open it for writing.
CalibFinish ==
    /\ pc = "calib"
    /\ ~(views < requiredImages)
    /\ cameraMatrix' = PinholeCamera
    /\ distCoeffs' = TRUE
    /\ isCalibrated' = TRUE
    /\ \E saved \in BOOLEAN :
          calibFile' = IF saved
                         THEN [opened |-> TRUE,
                               cameraMatrix |-> cameraMatrix',
                               distCoeffs |-> distCoeffs']
                         ELSE calibFile
    /\ pc' = AfterCalibration(isCalibrated')
    /\ NoCall
    /\ UNCHANGED <<sideVars, views, calibKey, calibFound, frameVars, handleVars,
                   animVars,
                   now,
                   shouldClose,
                   libVars, glLog, histVars>>

\* run(), lines 522-527: init the renderer, return when it fails.
RunInit ==
    /\ pc = "init"
    /\ \E in \in InitInputs, ret \in BOOLEAN :
          /\ init(in, ret)
          /\ pc' = IF ~ret THEN "dtor" ELSE "loadModel"
    /\ Called("init")
    /\ UNCHANGED <<sideVars, appVars, frameVars, animVars, now, shouldClose,
                   glLog,
                   modelLoad, loopEntered, everRendered, cleanupCalls,
                   glNoCtx>>

\* run(), lines 531-534: where run() goes with what loadModel returned.
AfterLoadModel_goOn(ret) == "loop"

AfterLoadModel(ret) == IF ~ret THEN "dtor" ELSE "loop"

\* run(), lines 529-534: load the model, return when it fails.
RunLoadModel ==
    /\ pc = "loadModel"
    /\ \E ret \in BOOLEAN :
          /\ loadModel(ret)
          /\ pc' = AfterLoadModel(ret)
    /\ Called("loadModel")
    /\ UNCHANGED <<sideVars, appVars, frameVars, animVars, now, shouldClose,
                   glLog,
                   initResult, shaderFailed, loopEntered, everRendered,
                   cleanupCalls, glNoCtx>>

\* run(), line 541: while (!renderer.windowShouldClose())
LoopCheck ==
    /\ pc = "loop"
    /\ loopEntered' = TRUE
    /\ pc' = IF shouldClose THEN "dtor" ELSE "capture"
    /\ steps' = <<"windowShouldClose">>
    /\ frameEmpty' = FALSE
    /\ Called("windowShouldClose")
    /\ UNCHANGED <<sideVars, appVars, poseVars, handleVars, animVars, now,
                   shouldClose,
                   libVars, glLog, initResult, shaderFailed, modelLoad,
                   everRendered, cleanupCalls, glNoCtx>>

\* run(), lines 542-543: cap >> frame; an empty frame ends the loop.
Capture ==
    /\ pc = "capture"
    /\ \E empty \in BOOLEAN :
          /\ frameEmpty' = empty
          /\ pc' = IF empty THEN "dtor" ELSE "detect"
    /\ steps' = Append(steps, "capture")
    /\ glLog' = <<>>
    /\ NoCall
    /\ UNCHANGED <<sideVars, appVars, poseVars, handleVars, animVars, now,
                   shouldClose,
                   libVars, histVars>>

\* detectAndRender(), line 500: the pose is solved for markerCorners[0].
FirstPose(zs) == zs[1]

\* detectAndRender(), line 505: markerFound && detectHandGesture(frame)
TriggerCondition_markerOnly(found, hand) == found

TriggerCondition(found, hand) == found /\ hand

\* detectAndRender(), lines 485-509: what it executes before render, in
\* order.  The pose is solved, and the gesture detector consulted, only when
\* a marker was found.
DetectSteps_gestureAlways(found, trig) ==
    <<"detectMarkers">>
    \o (IF found THEN <<"solvePnP">> ELSE <<>>)
    \o <<"detectHandGesture">>
    \o (IF trig THEN <<"triggerAnimation">> ELSE <<>>)

DetectSteps(found, trig) ==
    <<"detectMarkers">>
    \o (IF found THEN <<"solvePnP", "detectHandGesture">> ELSE <<>>)
    \o (IF trig THEN <<"triggerAnimation">> ELSE <<>>)

\* The poses the solver may return for up to MaxMarkers markers.
MarkerPoses == UNION {[1..n -> ZValues] : n \in 0..MaxMarkers}

\* detectAndRender(), lines 483-509: detect the markers, solve the pose of
\* the first one, and trigger the animation on a gesture.  zs holds tvec[2]
\* of the markers seen, hand is what detectHandGesture returns when it is
\* called.
Detect ==
    /\ pc = "detect"
    /\ \E zs \in MarkerPoses, hand \in BOOLEAN :
          /\ markerZ' = zs
          /\ UNCHANGED markerIndex
          /\ nMarkers' = Len(zs)
          /\ markerFound' = (Len(zs) # 0)
          /\ tvecZ' = IF Len(zs) # 0 THEN FirstPose(zs) ELSE 0
          /\ gesture' = (Len(zs) # 0 /\ hand)
          /\ steps' = steps \o DetectSteps(Len(zs) # 0,
                                           TriggerCondition(Len(zs) # 0, hand))
          /\ IF TriggerCondition(Len(zs) # 0, hand) THEN
                /\ triggerAnimation
                /\ Called("triggerAnimation")
             ELSE
                /\ UNCHANGED animVars
                /\ NoCall
    /\ pc' = "render"
    /\ UNCHANGED <<sideVars, appVars, frameEmpty, handleVars, now, shouldClose,
                   libVars, glLog, histVars>>

\* detectAndRender(), line 510: renderer.render(frame, rvec, tvec, ...)
Render ==
    /\ pc = "render"
    /\ render(tvecZ)
    /\ steps' = Append(steps, "render")
    /\ pc' = "present"
    /\ UNCHANGED <<sideVars, appVars, poseVars, frameEmpty, handleVars, now,
                   shouldClose, libVars,
                   initResult, shaderFailed, modelLoad, loopEntered,
                   cleanupCalls, glNoCtx>>

\* run(), line 547: renderer.pollEventsAndSwapBuffers()
Present ==
    /\ pc = "present"
    /\ \E close \in BOOLEAN : pollEventsAndSwapBuffers(close)
    /\ steps' = Append(steps, "pollEventsAndSwapBuffers")
    /\ pc' = "loop"
    /\ Called("pollEventsAndSwapBuffers")
    /\ UNCHANGED <<sideVars, appVars, poseVars, frameEmpty, handleVars,
                   animVars, now, libVars,
                   histVars>>

\* main, after run() returned: ~AugmentedRealityApp, then its member
\* renderer is destroyed: ~ARObjectRenderer() { cleanup(); }
AppDtor ==
    /\ pc = "dtor"
    /\ \E crash \in BOOLEAN :
          /\ cleanup(crash)
          /\ pc' = IF crash THEN "crashed" ELSE "done"
    /\ Called("cleanup")
    /\ UNCHANGED <<sideVars, appVars, frameVars, animVars, now, shouldClose,
                   glLog,
                   initResult, shaderFailed, modelLoad, loopEntered,
                   everRendered>>

\* Time passes while GLFW's timer runs.
Tick ==
    /\ glfwUp
    /\ \E d \in TimeSteps :
          /\ now + d <= MaxTime
          /\ now' = now + d
    /\ NoCall
    /\ UNCHANGED <<sideVars, pc, appVars, frameVars, handleVars, animVars,
                   shouldClose,
                   libVars, glLog, histVars>>

Next ==
    \/ AppCtor
    \/ RunStart
    \/ CalibIter
    \/ CalibFinish
    \/ RunInit
    \/ RunLoadModel
    \/ LoopCheck
    \/ Capture
    \/ Detect
    \/ Render
    \/ Present
    \/ AppDtor
    \/ Tick

Spec == Init /\ [][Next]_vars

----------------------------------------------------------------------------
(* The renderer under a client that keeps to the lifecycle of its public   *)
(* interface (init, loadModel, frames, cleanup, destructor) but, unlike    *)
(* run(), goes on without a model and may call cleanup() itself before the *)
(* destructor does.                                                        *)

InitClient ==
    /\ pc = "init"
    /\ calibFile = NoFile
    /\ xfIn = RenderArguments
    /\ Constructed

ClientLoadModel ==
    /\ pc = "loadModel"
    /\ \E ret \in BOOLEAN : loadModel(ret)
    /\ pc' = "loop"
    /\ Called("loadModel")
    /\ UNCHANGED <<sideVars, appVars, frameVars, animVars, now, shouldClose,
                   glLog,
                   initResult, shaderFailed, loopEntered, everRendered,
                   cleanupCalls, glNoCtx>>

\* An explicit renderer.cleanup() before the renderer is destroyed.
ClientCleanup ==
    /\ pc = "dtor"
    /\ cleanupCalls < MaxCleanups
    /\ \E crash \in BOOLEAN :
          /\ cleanup(crash)
          /\ pc' = IF crash THEN "crashed" ELSE "dtor"
    /\ Called("cleanup")
    /\ UNCHANGED <<sideVars, appVars, frameVars, animVars, now, shouldClose,
                   glLog,
                   initResult, shaderFailed, modelLoad, loopEntered,
                   everRendered>>

NextClient ==
    \/ RunInit
    \/ ClientLoadModel
    \/ LoopCheck
    \/ Capture
    \/ Detect
    \/ Render
    \/ Present
    \/ ClientCleanup
    \/ AppDtor
    \/ Tick

SpecClient == InitClient /\ [][NextClient]_vars

----------------------------------------------------------------------------
(* The cube variant of the application (src/src/main.cc, first half): its  *)
(* run() after the calibration check, with the renderer of namespace       *)
(* ARRenderer (src/include/GestureDetector.h).  ARRenderer::window,        *)
(* shaderProgram and vao are kept in window, objectShaderProgram and       *)
(* modelVAO.                                                               *)

InitV1 ==
    /\ pc = "v1_init"
    /\ calibFile = NoFile
    /\ xfIn = RenderArguments
    /\ Constructed

\* ARRenderer::initOpenGL: exit when glfwInit fails; neither the window nor
\* the loader is checked, and without them every GL call that follows is
\* undefined: the program may crash at once or go on.
V1InitOpenGL ==
    /\ pc = "v1_init"
    /\ \E glfw \in BOOLEAN, win \in BOOLEAN, glad \in BOOLEAN,
          crash \in BOOLEAN :
          IF ~glfw THEN
              /\ pc' = "exited"
              /\ UNCHANGED <<handleVars, libVars, glNoCtx>>
          ELSE
              /\ glfwUp' = TRUE
              /\ window' = IF win THEN GLName("window") ELSE 0
              /\ ctx' = win
              /\ gladLoaded' = (win /\ glad)
              /\ glNoCtx' = (glNoCtx \/ ~(win /\ glad))
              /\ released' = released
              /\ IF win /\ glad THEN
                    /\ ~crash
                    /\ modelVAO' = GLName("modelVAO")
                    /\ objectShaderProgram' = GLName("objectShaderProgram")
                    /\ acquired' = acquired \o <<"glfw", "window", "modelVAO",
                                                 "modelVBO",
                                                 "objectShaderProgram">>
                    /\ pc' = "v1_capture"
                 ELSE
                    /\ acquired' = acquired \o <<"glfw">>
                                   \o (IF win THEN <<"window">> ELSE <<>>)
                    /\ UNCHANGED <<modelVAO, objectShaderProgram>>
                    /\ pc' = IF crash THEN "crashed" ELSE "v1_capture"
              /\ UNCHANGED <<modelVBO, backgroundShaderProgram, backgroundVAO,
                             backgroundVBO, backgroundTexture>>
    /\ Called("initOpenGL")
    /\ UNCHANGED <<sideVars, appVars, frameVars, animVars, now, shouldClose,
                   glLog,
                   initResult, shaderFailed, modelLoad, loopEntered,
                   everRendered, cleanupCalls>>

\* run(), lines 265-267: cap >> frame; an empty frame ends the loop.
V1Capture ==
    /\ pc = "v1_capture"
    /\ \E empty \in BOOLEAN :
          /\ frameEmpty' = empty
          /\ pc' = IF empty THEN "v1_terminate" ELSE "v1_detect"
    /\ steps' = <<"capture">>
    /\ glLog' = <<>>
    /\ loopEntered' = TRUE
    /\ NoCall
    /\ UNCHANGED <<sideVars, appVars, poseVars, handleVars, animVars, now,
                   shouldClose,
                   libVars, initResult, shaderFailed, modelLoad,
                   everRendered, cleanupCalls, glNoCtx>>

\* detectAndProcess(), lines 195-200: detect the markers.
V1DetectMarkers ==
    /\ pc = "v1_detect"
    /\ \E zs \in MarkerPoses :
          /\ markerZ' = zs
          /\ nMarkers' = Len(zs)
          /\ markerFound' = (Len(zs) # 0)
          /\ pc' = IF Len(zs) # 0 THEN "v1_marker" ELSE "v1_gesture"
    /\ markerIndex' = 0
    /\ tvecZ' = 0
    /\ gesture' = FALSE
    /\ steps' = Append(steps, "detectMarkers")
    /\ NoCall
    /\ UNCHANGED <<sideVars, appVars, frameEmpty, handleVars, animVars, now,
                   shouldClose, libVars, glLog, histVars>>

\* ARRenderer::drawCube: clear, draw the cube, swap the buffers, poll.
drawCube(close) ==
    /\ glLog' = glLog \o <<"clearColorDepth", "drawObject", "swapBuffers",
                           "pollEvents">>
    /\ shouldClose' = (shouldClose \/ close)
    /\ everRendered' = TRUE
    /\ glNoCtx' = (glNoCtx \/ ~(ctx /\ gladLoaded))

\* detectAndProcess(), lines 205-223: one turn of the loop over the
\* detected markers: solve the pose of marker i and draw the cube with it.
V1MarkerPose ==
    /\ pc = "v1_marker"
    /\ markerIndex < nMarkers
    /\ tvecZ' = markerZ[markerIndex + 1]
    /\ markerIndex' = markerIndex + 1
    /\ \E close \in BOOLEAN, crash \in BOOLEAN :
          /\ crash => ~(ctx /\ gladLoaded)
          /\ drawCube(close)
          /\ pc' = IF crash THEN "crashed"
                   ELSE IF markerIndex' < nMarkers THEN "v1_marker"
                   ELSE "v1_gesture"
    /\ steps' = steps \o <<"solvePnP", "drawCube">>
    /\ Called("drawCube")
    /\ UNCHANGED <<sideVars, appVars, nMarkers, gesture, markerFound, markerZ,
                   frameEmpty, handleVars, animVars, now, libVars,
                   initResult, shaderFailed, modelLoad, loopEntered,
                   cleanupCalls>>

\* detectAndProcess(), lines 233-244: the gesture detector runs on every
\* frame; its result is only reported.
V1Gesture ==
    /\ pc = "v1_gesture"
    /\ \E hand \in BOOLEAN : gesture' = hand
    /\ steps' = Append(steps, "detectHandGesture")
    /\ pc' = "v1_key"
    /\ NoCall
    /\ UNCHANGED <<sideVars, appVars, nMarkers, markerFound, tvecZ, markerZ,
                   markerIndex, frameEmpty, handleVars, animVars, now,
                   shouldClose, libVars, glLog, histVars>>

\* run(), lines 269-271: 'q' or ESC ends the loop.
V1WaitKey ==
    /\ pc = "v1_key"
    /\ \E key \in Keys :
          pc' = IF key = "q" THEN "v1_terminate" ELSE "v1_capture"
    /\ NoCall
    /\ UNCHANGED <<sideVars, appVars, frameVars, handleVars, animVars, now,
                   shouldClose, libVars, glLog, histVars>>

\* ARRenderer::terminateOpenGL: glfwTerminate.
V1Terminate ==
    /\ pc = "v1_terminate"
    /\ glfwUp' = FALSE
    /\ ctx' = FALSE
    /\ released' = released \o <<"glfw">>
    /\ pc' = "done"
    /\ Called("terminateOpenGL")
    /\ UNCHANGED <<sideVars, appVars, frameVars, handleVars, animVars, now,
                   shouldClose, gladLoaded, acquired, glLog, histVars>>

NextV1 ==
    \/ V1InitOpenGL
    \/ V1Capture
    \/ V1DetectMarkers
    \/ V1MarkerPose
    \/ V1Gesture
    \/ V1WaitKey
    \/ V1Terminate

SpecV1 == InitV1 /\ [][NextV1]_vars

----------------------------------------------------------------------------
(* The frame loop of run() while it keeps drawing the object: init and     *)
(* loadModel succeed, every frame is non-empty and shows one marker in     *)
(* front of the camera, and the window is not closed.  The loop is one     *)
(* thread that blocks nowhere for ever, so its next step is eventually     *)
(* taken, and GLFW's timer keeps running.                                  *)

InitLive ==
    /\ pc = "init"
    /\ calibFile = NoFile
    /\ xfIn = RenderArguments
    /\ Constructed

LiveInit == RunInit /\ initResult' = "ok"

LiveLoadModel == RunLoadModel /\ modelLoad' = "ok"

LiveCapture == Capture /\ ~frameEmpty'

LiveDetect == Detect /\ nMarkers' = 1 /\ tvecZ' > 0

LivePresent == Present /\ ~shouldClose'

LiveLoop ==
    \/ LiveInit
    \/ LiveLoadModel
    \/ LoopCheck
    \/ LiveCapture
    \/ LiveDetect
    \/ Render
    \/ LivePresent

NextLive ==
    \/ LiveLoop
    \/ Tick

SpecLive ==
    InitLive /\ [][NextLive]_vars /\ WF_vars(LiveLoop) /\ WF_vars(Tick)

----------------------------------------------------------------------------
(* GestureDetector on its own.  Positions are in pixels, the clock in      *)
(* milliseconds.  A frame is empty or shows some hands, given by the       *)
(* centres of the regions the skin and cascade detectors return; every     *)
(* call of detectGestures comes some time after the one before.  The       *)
(* detector starts as constructed, or initialised with the history a hand  *)
(* that stayed at one place has left: one entry every 300 ms, the last one *)
(* at the start of the clock.                                              *)

maxHistorySize == 10
MaxClock == 1250
ClockSteps == {250, 500}
HandCentres == {<<0, 0>>, <<60, 0>>, <<0, 60>>, <<30, 40>>}
HandRegions ==
    {<<>>} \cup {<<c>> : c \in HandCentres} \cup {<< <<0, 0>>, <<60, 0>> >>}
StillHand(n) == [positions |-> [i \in 1..n |-> <<0, 0>>],
                 times |-> [i \in 1..n |-> (i - n) * 300]]
StartHistories == {NoHistory, StillHand(maxHistorySize - 1),
                   StillHand(maxHistorySize)}

\* updateHandHistory, lines 309-312: only the recent history is kept.
TrimHistory_positionsOnly(h) ==
    IF Len(h.positions) > maxHistorySize
       THEN [positions |-> Tail(h.positions), times |-> h.times]
       ELSE h

TrimHistory(h) ==
    IF Len(h.positions) > maxHistorySize
       THEN [positions |-> Tail(h.positions), times |-> Tail(h.times)]
       ELSE h

\* void updateHandHistory(position); t is steady_clock::now().
updateHandHistory(h, position, t) ==
    TrimHistory([positions |-> Append(h.positions, position),
                 times |-> Append(h.times, t)])

\* detectGestures, lines 96-117: the loop over the hand regions, as far as
\* the histories go.
RECURSIVE TrackHands(_, _, _)
TrackHands(h, hands, t) ==
    IF hands = <<>> THEN h
    ELSE TrackHands(updateHandHistory(h, Head(hands), t), Tail(hands), t)

\* detectMovementGestures, line 268: distance > 50, with
\* distance = cv::norm(movement).
Significant(movement) ==
    movement[1] * movement[1] + movement[2] * movement[2] > 50 * 50

\* detectMovementGestures, line 275: it must happen within one second.
InTime_always(timeDiff) == TRUE

InTime(timeDiff) == timeDiff < 1000

Abs(x) == IF x < 0 THEN -x ELSE x

\* detectMovementGestures, lines 279-285: the direction of the movement.
SwipeType(movement) ==
    IF Abs(movement[1]) > Abs(movement[2])
       THEN (IF movement[1] > 0 THEN "SWIPE_RIGHT" ELSE "SWIPE_LEFT")
       ELSE (IF movement[2] > 0 THEN "SWIPE_DOWN" ELSE "SWIPE_UP")

\* std::vector<GestureEvent> detectMovementGestures(): the events it
\* returns and the histories it leaves.
detectMovementGestures(h) ==
    IF Len(h.positions) < 3 THEN [events |-> <<>>, history |-> h]
    ELSE
        LET startPos == h.positions[1]
            endPos == h.positions[Len(h.positions)]
            movement == <<endPos[1] - startPos[1], endPos[2] - startPos[2]>>
            timeDiff == h.times[Len(h.times)] - h.times[1]
        IN  IF Significant(movement) /\ InTime(timeDiff)
               THEN [events |-> <<SwipeType(movement)>>,
                     history |-> NoHistory]
               ELSE [events |-> <<>>, history |-> h]

InitGesture ==
    /\ pc = "gestures"
    /\ calibFile = NoFile
    /\ xfIn = RenderArguments
    /\ \E h \in StartHistories :
          /\ handPositions = h.positions
          /\ timestamps = h.times
          /\ isInitialized = (h # NoHistory)
    /\ ConstructedButDetector

\* bool initialize(cascadePath)
GdInitialize ==
    /\ pc = "gestures"
    /\ isInitialized' = TRUE
    /\ Called("initialize")
    /\ UNCHANGED <<pc, appVars, frameVars, handleVars, animVars, now,
                   shouldClose, libVars, glLog, histVars, xfVars, bgVars,
                   meshVars, handPositions, timestamps, gestures, tracked,
                   gdIn, clock>>

\* std::vector<GestureEvent> detectGestures(frame): every hand region
\* gives one event of the shape analyzeHandShape sees and one entry of the
\* histories, then the movement events follow.
GdDetect ==
    /\ pc = "gestures"
    /\ \E d \in ClockSteps, empty \in BOOLEAN, hands \in HandRegions :
          /\ clock + d <= MaxClock
          /\ clock' = clock + d
          /\ gdIn' = [empty |-> empty, hands |-> IF empty THEN <<>> ELSE hands]
          /\ IF ~isInitialized \/ empty THEN
                /\ gestures' = <<>>
                /\ tracked' = NoHistory
                /\ UNCHANGED <<handPositions, timestamps>>
             ELSE
                LET h == TrackHands([positions |-> handPositions,
                                     times |-> timestamps], hands, clock')
                    m == detectMovementGestures(h)
                IN  /\ tracked' = h
                    /\ gestures' = [i \in 1..Len(hands) |-> "HAND"] \o m.events
                    /\ handPositions' = m.history.positions
                    /\ timestamps' = m.history.times
    /\ Called("detectGestures")
    /\ UNCHANGED <<pc, appVars, frameVars, handleVars, animVars, now,
                   shouldClose, libVars, glLog, histVars, xfVars, bgVars,
                   meshVars, isInitialized>>

NextGesture ==
    \/ GdInitialize
    \/ GdDetect

SpecGesture == InitGesture /\ [][NextGesture]_vars

----------------------------------------------------------------------------
(* ModelLoader's procedural meshes on their own.  The caller hands in two  *)
(* vectors, which may hold the mesh of an earlier call.  A vertex of the   *)
(* cube is its position and normal, the position in halves of the size; a  *)
(* vertex of the sphere is named by its latitude and longitude steps and   *)
(* the radius, from which the code computes position, normal and texture   *)
(* coordinate.                                                             *)

MaxSegments == 3
MeshSizes == {1, 2, 3}
MeshInputs == [size : MeshSizes, segments : 0..MaxSegments]
Stale == [lat |-> -1, lon |-> -1, radius |-> 0]
StaleVertices == {<<>>, <<Stale>>, <<Stale, Stale, Stale>>}
StaleIndices == {<<>>, <<0>>, <<0, 1, 2>>}

\* createCube, lines 570-606: the 24 vertices, four to a face.
CubeVertices(s) ==
    << <<-s, -s, s, "+z">>, <<s, -s, s, "+z">>,
       <<s, s, s, "+z">>, <<-s, s, s, "+z">>,
       <<-s, -s, -s, "-z">>, <<s, -s, -s, "-z">>,
       <<s, s, -s, "-z">>, <<-s, s, -s, "-z">>,
       <<-s, -s, -s, "-x">>, <<-s, -s, s, "-x">>,
       <<-s, s, s, "-x">>, <<-s, s, -s, "-x">>,
       <<s, -s, -s, "+x">>, <<s, -s, s, "+x">>,
       <<s, s, s, "+x">>, <<s, s, -s, "+x">>,
       <<-s, s, s, "+y">>, <<s, s, s, "+y">>,
       <<s, s, -s, "+y">>, <<-s, s, -s, "+y">>,
       <<-s, -s, s, "-y">>, <<s, -s, s, "-y">>,
       <<s, -s, -s, "-y">>, <<-s, -s, -s, "-y">> >>

\* createCube, lines 608-615: two triangles to a face.
CubeIndices ==
    << 0, 1, 2, 2, 3, 0,
       4, 5, 6, 6, 7, 4,
       8, 9, 10, 10, 11, 8,
       12, 13, 14, 14, 15, 12,
       16, 17, 18, 18, 19, 16,
       20, 21, 22, 22, 23, 20 >>

\* static void createCube(vertices, indices, size): both vectors are
\* cleared and then assigned.
createCube(vs, is, size) ==
    [vertices |-> CubeVertices(size), indices |-> CubeIndices]

\* createSphere, lines 632-648: the inner loop, lon from the given value up
\* to segments, pushing one vertex each time.
RECURSIVE SphereRow(_, _, _, _, _)
SphereRow(vs, lat, lon, radius, segments) ==
    IF lon <= segments
       THEN SphereRow(Append(vs, [lat |-> lat, lon |-> lon, radius |-> radius]),
                      lat, lon + 1, radius, segments)
       ELSE vs

\* createSphere, lines 627-649: the outer loop, lat up to segments.
RECURSIVE SphereVertices(_, _, _, _)
SphereVertices(vs, lat, radius, segments) ==
    IF lat <= segments
       THEN SphereVertices(SphereRow(vs, lat, 0, radius, segments),
                           lat + 1, radius, segments)
       ELSE vs

\* createSphere, line 655: the vertex below the current one.
NextRow_wide(current, segments) == current + segments + 2

NextRow(current, segments) == current + segments + 1

\* createSphere, lines 654-663: the two triangles of one cell.
Cell(lat, lon, segments) ==
    LET current == lat * (segments + 1) + lon
        next == NextRow(current, segments)
    IN  <<current, next, current + 1, current + 1, next, next + 1>>

RECURSIVE SphereIndexRow(_, _, _, _)
SphereIndexRow(is, lat, lon, segments) ==
    IF lon < segments
       THEN SphereIndexRow(is \o Cell(lat, lon, segments), lat, lon + 1,
                           segments)
       ELSE is

\* createSphere, lines 652-665: the index loops.
RECURSIVE SphereIndices(_, _, _)
SphereIndices(is, lat, segments) ==
    IF lat < segments
       THEN SphereIndices(SphereIndexRow(is, lat, 0, segments), lat + 1,
                          segments)
       ELSE is

\* vertices.clear(); indices.clear();
Clear(v) == <<>>

\* static void createSphere(vertices, indices, radius, segments)
createSphere(vs, is, radius, segments) ==
    [vertices |-> SphereVertices(Clear(vs), 0, radius, segments),
     indices |-> SphereIndices(Clear(is), 0, segments)]

InitMesh ==
    /\ pc = "mesh"
    /\ calibFile = NoFile
    /\ xfIn = RenderArguments
    /\ ConstructedButMesh
    /\ isInitialized = FALSE
    /\ handPositions = <<>>
    /\ timestamps = <<>>
    /\ meshIn \in MeshInputs
    /\ vertices \in StaleVertices
    /\ indices \in StaleIndices

CreateCube ==
    /\ pc = "mesh"
    /\ LET mesh == createCube(vertices, indices, meshIn.size) IN
          /\ vertices' = mesh.vertices
          /\ indices' = mesh.indices
    /\ Called("createCube")
    /\ UNCHANGED <<pc, appVars, frameVars, handleVars, animVars, now,
                   shouldClose, libVars, glLog, histVars, xfVars, bgVars,
                   gdVars, meshIn>>

CreateSphere ==
    /\ pc = "mesh"
    /\ LET mesh == createSphere(vertices, indices, meshIn.size,
                                meshIn.segments) IN
          /\ vertices' = mesh.vertices
          /\ indices' = mesh.indices
    /\ Called("createSphere")
    /\ UNCHANGED <<pc, appVars, frameVars, handleVars, animVars, now,
                   shouldClose, libVars, glLog, histVars, xfVars, bgVars,
                   gdVars, meshIn>>

NextMesh ==
    \/ CreateCube
    \/ CreateSphere

SpecMesh == InitMesh /\ [][NextMesh]_vars

----------------------------------------------------------------------------
(* The background texture on its own: frames of several sizes are          *)
(* captured and drawBackground uploads them.  A frame is its size, the     *)
(* identity of its content and the order of its rows; an image of the      *)
(* texture also records the distance in bytes at which GL took successive  *)
(* rows from the client memory.                                            *)

MaxFrameId == 3
FrameSizes == {<<640, 480>>, <<320, 240>>, <<854, 480>>, <<1280, 720>>}

\* cv::flip(frame, flippedFrame, 0): the rows in the opposite order, in a
\* new continuous matrix.
flip(f) == [f EXCEPT !.bottomUp = ~f.bottomUp]

\* cv::Mat::step of a continuous CV_8UC3 matrix: three bytes per pixel and
\* no padding between rows.
step(f) == 3 * f.cols

\* The row stride glTexImage2D reads with: GL_BGR / GL_UNSIGNED_BYTE rows of
\* 3 * width bytes, each row starting at a multiple of GL_UNPACK_ALIGNMENT,
\* which is 4 unless glPixelStorei changes it, and the code never calls
\* glPixelStorei.
UnpackStride(width) == ((3 * width + 3) \div 4) * 4

\* glTexImage2D(GL_TEXTURE_2D, 0, GL_RGB, cols, rows, 0, GL_BGR,
\* GL_UNSIGNED_BYTE, data): level 0 is specified anew with the given size.
glTexImage2D(f) ==
    [cols |-> f.cols, rows |-> f.rows, id |-> f.id, bottomUp |-> f.bottomUp,
     stride |-> UnpackStride(f.cols)]

\* void drawBackground(frame): the upload of the flipped frame.
drawBackground(f) == glTexImage2D(flip(f))

InitBackground ==
    /\ pc = "background"
    /\ calibFile = NoFile
    /\ xfIn = RenderArguments
    /\ Constructed

\* cap >> frame: the next frame of the camera.
BgCapture ==
    /\ pc = "background"
    /\ \E size \in FrameSizes, id \in 1..MaxFrameId :
          frame' = [cols |-> size[1], rows |-> size[2], id |-> id,
                    bottomUp |-> FALSE]
    /\ NoCall
    /\ UNCHANGED <<pc, appVars, frameVars, handleVars, animVars, now,
                   shouldClose, libVars, glLog, histVars, xfVars, texture,
                   gdVars, meshVars>>

\* render(frame, ...), line 214: drawBackground(frame).
BgDraw ==
    /\ pc = "background"
    /\ frame # NoFrame
    /\ texture' = drawBackground(frame)
    /\ Called("drawBackground")
    /\ UNCHANGED <<pc, appVars, frameVars, handleVars, animVars, now,
                   shouldClose, libVars, glLog, histVars, xfVars, frame,
                   gdVars, meshVars>>

NextBackground ==
    \/ BgCapture
    \/ BgDraw

SpecBackground == InitBackground /\ [][NextBackground]_vars

----------------------------------------------------------------------------
(* The matrix builders on their own: the arguments are drawn at the start, *)
(* and each step applies one builder to them.                              *)

InitTransform ==
    /\ pc = "transform"
    /\ calibFile = NoFile
    /\ xfIn \in TransformInputs
    /\ Constructed

BuildProjection ==
    /\ pc = "transform"
    /\ projection' = buildProjectionMatrix(xfIn.camera, xfIn.width,
                                           xfIn.height, xfIn.depth[1],
                                           xfIn.depth[2])
    /\ Called("buildProjectionMatrix")
    /\ UNCHANGED <<pc, appVars, frameVars, handleVars, animVars, now,
                   shouldClose, libVars, glLog, histVars, xfIn, view,
                   bgVars, gdVars, meshVars>>

BuildView ==
    /\ pc = "transform"
    /\ view' = buildViewMatrix(xfIn.rvec, xfIn.tvec)
    /\ Called("buildViewMatrix")
    /\ UNCHANGED <<pc, appVars, frameVars, handleVars, animVars, now,
                   shouldClose, libVars, glLog, histVars, xfIn, projection,
                   bgVars, gdVars, meshVars>>

DrawCubeView ==
    /\ pc = "transform"
    /\ view' = drawCubeView(xfIn.rvec, xfIn.tvec)
    /\ Called("drawCube")
    /\ UNCHANGED <<pc, appVars, frameVars, handleVars, animVars, now,
                   shouldClose, libVars, glLog, histVars, xfIn, projection,
                   bgVars, gdVars, meshVars>>

BuildViewCube ==
    /\ pc = "transform"
    /\ \E g \in Uninitialised \X Uninitialised \X Uninitialised :
          view' = cubeViewMatrix(xfIn.rvec, xfIn.tvec, g)
    /\ Called("ARCubeRenderer::buildViewMatrix")
    /\ UNCHANGED <<pc, appVars, frameVars, handleVars, animVars, now,
                   shouldClose, libVars, glLog, histVars, xfIn, projection,
                   bgVars, gdVars, meshVars>>

NextTransform ==
    \/ BuildProjection
    \/ BuildView
    \/ BuildViewCube
    \/ DrawCubeView

SpecTransform == InitTransform /\ [][NextTransform]_vars

----------------------------------------------------------------------------
(* Properties of the animation.                                            *)

\* C1: a triggerAnimation() call made while the animation is active changes
\* neither animationActive nor animationStartTime, and the start time
\* changes only in a triggerAnimation() call made while inactive.
C1_RetriggerIsNoOp ==
    [][ /\ (call' = "triggerAnimation" /\ animationActive)
           => UNCHANGED <<animationActive, animationStartTime>>
        /\ animationStartTime' # animationStartTime
           => (call' = "triggerAnimation" /\ ~animationActive) ]_vars

\* A second trigger arrived inside the active window of an earlier one.
C1_Witness ==
    /\ call = "triggerAnimation"
    /\ animationActive
    /\ animationStartTime < now
    /\ now - animationStartTime < animationDuration

\* C2: a query of getAnimationTransform() returns offset 0 when no trigger
\* has started an animation yet, and when the time since the start of the
\* last animation has reached animationDuration (so at every later query too,
\* until a trigger starts the next animation).
C2_ZeroOutsideAnimation ==
    queried =>
        /\ ~everStarted => offset = 0
        /\ (everStarted /\ now - animationStartTime >= animationDuration)
           => offset = 0

\* A query made well after the animation ran out.
C2_Witness ==
    /\ queried
    /\ everStarted
    /\ now - animationStartTime > animationDuration
    /\ offset = 0

\* C3: a query made at elapsed time e = now - start with 0 <= e <= duration
\* returns animationHeight * e / animationDuration, which is non-decreasing
\* in e and is animationHeight at e = animationDuration.
C3_LinearRiseToPeak ==
    (queried /\ everStarted
     /\ now - animationStartTime >= 0
     /\ now - animationStartTime <= animationDuration)
    => /\ offset = (animationHeight * (now - animationStartTime))
                   \div animationDuration
       /\ now - animationStartTime = animationDuration
          => offset = animationHeight

\* C4: a triggerAnimation() call made more than animationDuration after the
\* last animation start starts a new animation: the animation is active and
\* its start time is the time of the call.
C4_TriggerAfterDurationRestarts ==
    [][ (call' = "triggerAnimation" /\ everStarted
         /\ now - animationStartTime > animationDuration)
        => (animationActive' /\ animationStartTime' = now) ]_vars

----------------------------------------------------------------------------
(* Properties of a frame.                                                  *)

FrameBase ==
    <<"clearColorDepth", "texImage2D", "drawBackgroundQuad", "clearDepth">>

PresentOps == <<"swapBuffers", "pollEvents">>

ObjectDrawn == \E i \in 1..Len(glLog) : glLog[i] = "drawObject"

\* C5: the draw steps of a frame are, in this order, clear colour and depth,
\* upload the frame, draw the background quad, clear depth, then possibly
\* draw the object; nothing is drawn before render(), and the swap and the
\* poll come after all of them.
C5_DrawOrder ==
    /\ pc \in {"detect", "render"} => glLog = <<>>
    /\ pc = "present"
       => glLog \in {FrameBase, FrameBase \o <<"drawObject">>}
    /\ call = "pollEventsAndSwapBuffers"
       => glLog \in {FrameBase \o PresentOps,
                     FrameBase \o <<"drawObject">> \o PresentOps}

\* A frame with the object was presented.
C5_Witness ==
    /\ call = "pollEventsAndSwapBuffers"
    /\ glLog = FrameBase \o <<"drawObject">> \o PresentOps

\* C6: render() draws the object exactly when a model is loaded and tvec[2]
\* of the frame's pose is positive; otherwise it draws the background only;
\* a frame without marker has the zero pose and no object.
C6_DrawIffModelAndFront ==
    call = "render" =>
        /\ ObjectDrawn <=> (modelVAO # 0 /\ tvecZ > 0)
        /\ ~ObjectDrawn => glLog = FrameBase
        /\ ~markerFound => (tvecZ = 0 /\ ~ObjectDrawn)

\* A model is loaded, the marker is behind the camera, nothing but the
\* background is drawn.
C6_Witness ==
    /\ call = "render"
    /\ modelVAO # 0
    /\ markerFound
    /\ tvecZ < 0
    /\ glLog = FrameBase

----------------------------------------------------------------------------
(* Properties of startup and shutdown.                                     *)

HandleResources ==
    {Resources[i] : i \in 1..Len(Resources)} \ {"glfw"}

\* C7: whatever number of times cleanup() runs, no window, buffer, vertex
\* array, texture or program handle is released more than once.
C7_NoDoubleRelease ==
    \A res \in HandleResources : Count(released, res) <= 1

\* C8: when init() was not called or returned false, cleanup() issues no GL
\* call without a context and releases a resource at most as often as it
\* was acquired.
C8_CleanupSafeAfterPartialInit ==
    (initResult # "ok" /\ cleanupCalls >= 1)
    => /\ ~glNoCtx
       /\ \A i \in 1..Len(Resources) :
             Count(released, Resources[i]) <= Count(acquired, Resources[i])

\* C9: when a shader fails to compile or a program fails to link, init()
\* returns false, and run() returns: loadModel is not called, the loop is not
\* entered, no frame is rendered; render() never runs without its programs.
C9_ShaderFailureAbortsRun ==
    /\ shaderFailed
       => /\ initResult = "failed"
          /\ modelLoad = "none"
          /\ ~loopEntered
          /\ ~everRendered
          /\ pc \in {"dtor", "done", "crashed"}
    /\ call = "render"
       => (objectShaderProgram # 0 /\ backgroundShaderProgram # 0)

\* The background program failed, the object program did not, and the
\* application ended.
C9_Witness ==
    /\ shaderFailed
    /\ objectShaderProgram # 0
    /\ backgroundShaderProgram = 0
    /\ pc = "done"

AcquisitionGroups ==
    << {"glfw"}, {"window"}, {"objectShaderProgram"},
       {"backgroundShaderProgram"}, {"backgroundVAO", "backgroundVBO"},
       {"backgroundTexture"}, {"modelVAO", "modelVBO"} >>

Rank(res) == CHOOSE i \in 1..Len(AcquisitionGroups) : res \in AcquisitionGroups[i]

\* C22: cleanup() releases in the reverse of the acquisition order: no
\* resource is released after one that was acquired before it.
C22_ReverseOrderRelease ==
    call = "cleanup"
    => \A i \in 1..Len(released), j \in 1..Len(released) :
          i < j => Rank(released[i]) >= Rank(released[j])

\* C23: animationActive and animationStartTime change only in a
\* triggerAnimation() call or in a render() call that queries
\* getAnimationTransform(); init, loadModel, windowShouldClose,
\* pollEventsAndSwapBuffers, cleanup and a render() that skips the object
\* leave them as they are.
C23_AnimationStateWriters ==
    [][ (animationActive' # animationActive
         \/ animationStartTime' # animationStartTime)
        => (call' = "triggerAnimation" \/ (call' = "render" /\ queried')) ]_vars

\* A frame was rendered without the object while an animation was active.
C23_Witness ==
    /\ call = "render"
    /\ ~queried
    /\ animationActive
    /\ animationStartTime > 0

----------------------------------------------------------------------------
(* Properties of the application loop.                                     *)

IsPrefix(s, t) == Len(s) <= Len(t) /\ SubSeq(t, 1, Len(s)) = s

Occurs(seq, x) == \E i \in 1..Len(seq) : seq[i] = x

\* The steps of an iteration that runs to its end, for a frame with or
\* without a marker and with or without a trigger.
IterationSteps(found, trig) ==
    <<"windowShouldClose", "capture", "detectMarkers">>
    \o (IF found THEN <<"solvePnP", "detectHandGesture">> ELSE <<>>)
    \o (IF trig THEN <<"triggerAnimation">> ELSE <<>>)
    \o <<"render", "pollEventsAndSwapBuffers">>

Stages ==
    {"capture", "detectMarkers", "solvePnP", "detectHandGesture", "render",
     "pollEventsAndSwapBuffers"}

IsStage(x) == x \in Stages

C12_EmptyFrameSkipped ==
    frameEmpty => pc \in {"loop", "capture", "detect", "render", "present"}

\* C13: the renderer is initialised, and the loop entered, only when the
\* application is calibrated; while it is not, run() is in
\* performCalibration() or has returned without initialising or rendering
\* anything.
C13_NoRenderingUncalibrated ==
    /\ (initResult # "none" \/ loopEntered \/ everRendered) => isCalibrated
    /\ ~isCalibrated
       => pc \in {"main", "exited", "run", "calib", "dtor", "done", "crashed"}
    /\ pc = "calib" => ~isCalibrated

\* The calibration was abandoned with 'q' after some views were captured,
\* and the application ended without a renderer.
C13_Witness ==
    /\ pc = "done"
    /\ ~isCalibrated
    /\ views > 0
    /\ initResult = "none"

\* C14: loadCalibration() returns true exactly when the file opens and both
\* cameraMatrix and distCoeffs are read non-empty from it.
C14_LoadCalibrationIff ==
    pc = "run"
    => (isCalibrated <=> /\ calibFile.opened
                         /\ ~calibFile.cameraMatrix.empty
                         /\ calibFile.distCoeffs)

\* A file that opens and holds both entries was loaded.
C14_Witness ==
    /\ pc = "run"
    /\ isCalibrated
    /\ calibFile.opened
    /\ cameraMatrix = calibFile.cameraMatrix

\* C15: a frame in which several markers were detected has, once processed,
\* given the renderer one pose, that of the first marker, and has seen one
\* object draw and one present.
C15_OnlyFirstMarker ==
    (pc = "v1_key" /\ nMarkers > 1)
    => /\ tvecZ = markerZ[1]
       /\ Count(glLog, "drawObject") = 1
       /\ Count(glLog, "swapBuffers") = 1

C17_NoDrawWithInvalidIntrinsics ==
    (call = "render" /\ ObjectDrawn)
    => (cameraMatrix.fx > 0 /\ cameraMatrix.fy > 0)

----------------------------------------------------------------------------
(* Properties of the matrices.                                             *)

\* The clip coordinates of the view-space point p under the projection P,
\* and its normalised device coordinates after the division by w.
Clip(P, p) ==
    LET v == <<Frac(p[1], 1), Frac(p[2], 1), Frac(p[3], 1), Frac(1, 1)>>
    IN  [r \in 1..4 |->
            FracAdd(FracAdd(FracMul(P[r][1], v[1]), FracMul(P[r][2], v[2])),
                    FracAdd(FracMul(P[r][3], v[3]), FracMul(P[r][4], v[4])))]

NDC(P, p) == [i \in 1..3 |-> FracDiv(Clip(P, p)[i], Clip(P, p)[4])]

\* The image of the point p under the matrix V, and its w.
Apply(V, p) ==
    [r \in 1..3 |-> V[r][1] * p[1] + V[r][2] * p[2] + V[r][3] * p[3] + V[r][4]]

ApplyW(V, p) == V[4][1] * p[1] + V[4][2] * p[2] + V[4][3] * p[3] + V[4][4]

Identity4 == [r \in 1..4 |-> [c \in 1..4 |-> IF r = c THEN 1 ELSE 0]]

Transpose(A) == [r \in 1..4 |-> [c \in 1..4 |-> A[c][r]]]

\* The pose as a matrix: the rotation of rvec, then the translation tvec.
PoseOf(in) ==
    LET R == Rodrigues(in.rvec)
    IN  [r \in 1..4 |-> [c \in 1..4 |->
            IF r <= 3 /\ c <= 3 THEN R[r][c]
            ELSE IF r <= 3 /\ c = 4 THEN in.tvec[r]
            ELSE IF r = c THEN 1 ELSE 0]]

\* The origin and a point on each axis of the marker.
TestPoints == {<<0, 0, 0>>, <<10, 0, 0>>, <<0, 10, 0>>, <<0, 0, 10>>}

\* C18: the projection built from fx = fy = 500, cx = 320, cy = 240 for a
\* 640x480 viewport maps every point of the optical axis to x = y = 0 in
\* normalised device coordinates, and any projection built for 0 < near <
\* far maps a point at z = -near to z = -1.
C18_PrincipalPointAndNearPlane ==
    call = "buildProjectionMatrix"
    => /\ (xfIn.camera = PinholeCamera /\ xfIn.width = 640
           /\ xfIn.height = 480)
          => \A d \in 1..MaxDepth :
                /\ FracEq(NDC(projection, <<0, 0, -d>>)[1], Frac(0, 1))
                /\ FracEq(NDC(projection, <<0, 0, -d>>)[2], Frac(0, 1))
       /\ FracEq(NDC(projection, <<0, 0, -xfIn.depth[1]>>)[3], Frac(-1, 1))

\* The projection of render(), near 0.1 and far 100, was built for the
\* pinhole camera.
C18_Witness ==
    /\ call = "buildProjectionMatrix"
    /\ xfIn.camera = PinholeCamera
    /\ xfIn.depth = <<1, 1000>>
    /\ FracEq(projection[1][1], Frac(25, 16))

\* C19: for the zero rotation vector buildViewMatrix returns the rotation
\* block diag(1, -1, -1) and the translation (tx, -ty, -tz); with the
\* marker 0.5 m in front of the camera and the animation idle, the origin
\* of the model is at (0, 0, -0.5 m) in view space.
C19_IdentityPoseView ==
    (call = "buildViewMatrix" /\ xfIn.rvec.turns = 0)
    => /\ \A r \in 1..3, c \in 1..3 :
             view[r][c] = IF r # c THEN 0 ELSE IF r = 1 THEN 1 ELSE -1
       /\ <<view[1][4], view[2][4], view[3][4]>>
          = <<xfIn.tvec[1], -xfIn.tvec[2], -xfIn.tvec[3]>>
       /\ xfIn.tvec = <<0, 0, 500>>
          => Apply(view, ModelOrigin(0)) = <<0, 0, -500>>

\* The view matrix was built for no rotation and a marker off the axis.
C19_Witness ==
    /\ call = "buildViewMatrix"
    /\ xfIn.rvec.turns = 0
    /\ xfIn.tvec = <<100, 200, 500>>

\* C20, as stated: the view matrix times the basis-changed pose matrix is
\* the identity.
C20_ViewIsInverse ==
    call \in {"buildViewMatrix", "drawCube"}
    => MatMul(view, MatMul(cv_to_gl, PoseOf(xfIn))) = Identity4

\* C20, amended: buildViewMatrix returns the basis-changed pose matrix
\* itself: it takes a point p of the marker to R p + t with Y and Z
\* negated.  drawCube returns the transpose of the inverse of the pose
\* matrix, with no change of basis.
C20_ViewIsBasisChangedPose ==
    /\ call = "buildViewMatrix"
       => \A p \in TestPoints :
             /\ Apply(view, p)
                = <<Apply(PoseOf(xfIn), p)[1], -Apply(PoseOf(xfIn), p)[2],
                    -Apply(PoseOf(xfIn), p)[3]>>
             /\ ApplyW(view, p) = 1
    /\ call = "drawCube"
       => MatMul(Transpose(view), PoseOf(xfIn)) = Identity4

\* The view matrix was built for a quarter turn about X and a marker off
\* the axis.
C20_Witness ==
    /\ call = "buildViewMatrix"
    /\ xfIn.rvec = [axis |-> 1, turns |-> 1]
    /\ xfIn.tvec = <<100, 200, 500>>
    /\ view # Identity4

\* The steps that return a view matrix, one per renderer variant.
ViewBuilders == {"buildViewMatrix", "ARCubeRenderer::buildViewMatrix", "drawCube"}

\* The image of the direction d under the matrix V.
Direction(V, d) ==
    [r \in 1..3 |-> V[r][1] * d[1] + V[r][2] * d[2] + V[r][3] * d[3]]

\* C21: for the pose turned a quarter about the camera's X axis, with no
\* translation, every variant takes the marker's up vector (0, 1, 0) to the
\* same graphics axis, forward (0, 0, -1) or down (0, -1, 0).
C21_UpVectorSameAxis ==
    (call \in ViewBuilders /\ xfIn.rvec = [axis |-> 1, turns |-> 1]
     /\ xfIn.tvec = <<0, 0, 0>>)
    => /\ Direction(view, <<0, 1, 0>>) \in {<<0, 0, -1>>, <<0, -1, 0>>}
       /\ Direction(view, <<0, 1, 0>>)
          = Direction(buildViewMatrix(xfIn.rvec, xfIn.tvec), <<0, 1, 0>>)

\* C29: the view matrix a buildViewMatrix returns has the bottom row
\* (0, 0, 0, 1), whatever the pose.
C29_ViewMatrixAffine ==
    call \in {"buildViewMatrix", "ARCubeRenderer::buildViewMatrix"}
    => <<view[4][1], view[4][2], view[4][3], view[4][4]>> = <<0, 0, 0, 1>>

----------------------------------------------------------------------------
(* The calibration loop.                                                   *)

\* C26: in performCalibration the number of captured views grows by at most
\* one per iteration, and only in an iteration that found the chessboard and
\* read 'c'; the camera parameters are computed, isCalibrated is set and the
\* calibration file is written only once 20 views are held; an iteration
\* that reads 'q' returns at once, with the views, isCalibrated (false) and
\* the file as they were.
C26_CalibrationCapture ==
    [][ pc = "calib" =>
          /\ views' \in {views, views + 1}
          /\ views' = views + 1 => (calibFound' /\ calibKey' = "c")
          /\ (\/ isCalibrated' # isCalibrated
              \/ cameraMatrix' # cameraMatrix
              \/ distCoeffs' # distCoeffs
              \/ calibFile' # calibFile)
             => (views = requiredImages /\ views' = views /\ isCalibrated')
          /\ (views < requiredImages /\ calibKey' = "q")
             => /\ pc' = "dtor"
                /\ ~isCalibrated'
                /\ calibFile' = calibFile
                /\ views' = views ]_vars

\* The twentieth view was captured and the calibration was computed and
\* saved.
C26_Witness ==
    /\ pc = "init"
    /\ views = requiredImages
    /\ calibKey = "c" /\ calibFound
    /\ isCalibrated
    /\ calibFile = [opened |-> TRUE, cameraMatrix |-> PinholeCamera,
                    distCoeffs |-> TRUE]

----------------------------------------------------------------------------
(* The background texture.                                                 *)

\* C24: after drawBackground the background texture holds exactly the
\* current frame at the current frame's size, whatever the size of the
\* frame and of the frames before it: the size and the content are those of
\* the frame, the rows are in GL's bottom-up order, and each row was read
\* from where the frame keeps it.
C24_TextureHoldsFrame ==
    call = "drawBackground"
    => /\ texture.cols = frame.cols
       /\ texture.rows = frame.rows
       /\ texture.id = frame.id
       /\ texture.bottomUp
       /\ texture.stride = step(frame)

----------------------------------------------------------------------------
(* The end of an animation.                                                *)

\* C25: while time advances and frames with a loaded model and a marker in
\* front keep being rendered, an animation that was started becomes
\* inactive (the timer of the model stops at MaxTime, so this is asked of
\* the animations whose end lies within it); and animationActive goes from
\* true to false only in a render() that queried getAnimationTransform at
\* or after animationStartTime + animationDuration, and every such query
\* of an active animation, so the first one, makes it inactive.
C25_AnimationEnds ==
    /\ (animationActive /\ animationStartTime + animationDuration <= MaxTime)
          ~> ~animationActive
    /\ [][ (animationActive /\ ~animationActive')
             => /\ call' = "render" /\ queried'
                /\ now >= animationStartTime + animationDuration ]_vars
    /\ [][ (/\ call' = "render" /\ queried'
             /\ animationActive
             /\ now >= animationStartTime + animationDuration)
            => ~animationActive' ]_vars

\* An animation was started, ran its duration and was ended by the query of
\* a render().
C25_Witness ==
    /\ call = "render" /\ queried
    /\ everStarted /\ ~animationActive
    /\ animationStartTime > 0
    /\ now >= animationStartTime + animationDuration

----------------------------------------------------------------------------
(* The gesture detector.                                                   *)

\* The last n elements of a sequence, all of it when it is shorter.
LastN(seq, n) ==
    IF Len(seq) <= n THEN seq ELSE SubSeq(seq, Len(seq) - n + 1, Len(seq))

Swipes == {"SWIPE_LEFT", "SWIPE_RIGHT", "SWIPE_UP", "SWIPE_DOWN"}
IsSwipe(type) == type \in Swipes

\* C27: the position history and the timestamp history of GestureDetector
\* always have the same length, at most maxHistorySize; a call of
\* detectGestures on an uninitialised detector or on an empty frame returns
\* no gesture and leaves both histories as they were; otherwise the
\* histories are extended by the hands of the frame, stamped with the time
\* of the call, and only the newest maxHistorySize entries are kept (unless
\* a movement gesture then clears them).
C27_HistoryBounded ==
    /\ [](/\ Len(handPositions) = Len(timestamps)
          /\ Len(handPositions) <= maxHistorySize)
    /\ [][ call' = "detectGestures" =>
             IF ~isInitialized \/ gdIn'.empty
                THEN /\ gestures' = <<>>
                     /\ handPositions' = handPositions
                     /\ timestamps' = timestamps
                ELSE /\ tracked'.positions
                          = LastN(handPositions \o gdIn'.hands, maxHistorySize)
                     /\ tracked'.times
                          = LastN(timestamps
                                    \o [i \in 1..Len(gdIn'.hands) |-> clock'],
                                  maxHistorySize)
                     /\ \/ /\ handPositions' = tracked'.positions
                           /\ timestamps' = tracked'.times
                        \/ /\ handPositions' = <<>>
                           /\ timestamps' = <<>> ]_vars

\* A hand was added to a full history, and the oldest entry of the start
\* was dropped.
C27_Witness ==
    /\ call = "detectGestures"
    /\ ~gdIn.empty /\ gdIn.hands # <<>>
    /\ Len(handPositions) = maxHistorySize
    /\ timestamps[maxHistorySize] = clock
    /\ timestamps[1] > StillHand(maxHistorySize - 1).times[1]

\* C28: a call of detectGestures returns at most one swipe, and only when
\* the history held at least three positions, the newest more than 50
\* pixels from the oldest and less than 1000 ms after it; the swipe is
\* left or right when |dx| > |dy| and up or down otherwise; both histories
\* are cleared when a swipe is returned and are left as the hands of the
\* frame made them otherwise.
C28_SwipeConditions ==
    [][ (call' = "detectGestures" /\ isInitialized /\ ~gdIn'.empty) =>
          LET h == tracked'
              n == Len(h.positions)
              swipes == SelectSeq(gestures', IsSwipe)
              dx == h.positions[n][1] - h.positions[1][1]
              dy == h.positions[n][2] - h.positions[1][2]
              dt == h.times[n] - h.times[1]
              adx == IF dx < 0 THEN -dx ELSE dx
              ady == IF dy < 0 THEN -dy ELSE dy
          IN  /\ Len(swipes) <= 1
              /\ IF Len(swipes) = 1
                    THEN /\ n >= 3
                         /\ dx * dx + dy * dy > 2500
                         /\ dt < 1000
                         /\ swipes[1] \in (IF adx > ady
                                              THEN {"SWIPE_LEFT", "SWIPE_RIGHT"}
                                              ELSE {"SWIPE_UP", "SWIPE_DOWN"})
                         /\ handPositions' = <<>>
                         /\ timestamps' = <<>>
                    ELSE /\ handPositions' = h.positions
                         /\ timestamps' = h.times ]_vars

\* A swipe to the left was returned and the histories, which held three
\* positions or more, were cleared.
C28_Witness ==
    /\ call = "detectGestures"
    /\ gestures # <<>>
    /\ gestures[Len(gestures)] = "SWIPE_LEFT"
    /\ Len(tracked.positions) >= 3
    /\ handPositions = <<>> /\ timestamps = <<>>

----------------------------------------------------------------------------
(* The procedural meshes.                                                  *)

\* Every index names a vertex of the mesh (the first vertex is 0).
IndexSafe ==
    \A i \in 1..Len(indices) : indices[i] >= 0 /\ indices[i] < Len(vertices)

\* Nothing is left of what the vectors held before the call.
NothingStale == \A i \in 1..Len(vertices) : vertices[i] # Stale

\* C30: createCube leaves 24 vertices and 36 indices; createSphere with
\* segments >= 1 leaves (segments + 1)^2 vertices and 6 * segments^2
\* indices; in both every index is less than the number of vertices, and
\* nothing of the previous content of the two vectors remains.
C30_MeshesIndexSafe ==
    /\ call = "createCube"
       => /\ Len(vertices) = 24
          /\ Len(indices) = 36
          /\ IndexSafe
          /\ NothingStale
    /\ (call = "createSphere" /\ meshIn.segments >= 1)
       => /\ Len(vertices) = (meshIn.segments + 1) * (meshIn.segments + 1)
          /\ Len(indices) = 6 * meshIn.segments * meshIn.segments
          /\ IndexSafe
          /\ NothingStale

\* A sphere of several segments was built, and its last index names its
\* last vertex.
C30_Witness ==
    /\ call = "createSphere"
    /\ meshIn.segments >= 2
    /\ indices # <<>>
    /\ indices[Len(indices)] = Len(vertices) - 1

====
